---- MODULE Spec2Model ----
(***************************************************************************)
(* Model of the boldly-go banking service: the DynamoDB-backed account,    *)
(* transaction and card operations of service.go, the token authority of   *)
(* authentication.go and the GraphQL resolvers that call them.             *)
(*                                                                         *)
(* Money is float64 in the source; the model counts whole currency units   *)
(* (integers), so rounding of binary fractions is outside the model.       *)
(***************************************************************************)
EXTENDS Integers, Sequences, FiniteSets, TLC

VARIABLES
    accounts,   \* table BankAccounts: key <<bankId, accountId>> -> item
    txns,       \* table Transactions: key <<accountId, transactionId>> -> item
    nextAccount,\* number of account uuids handed out by uuid.NewV4
    nextTxn,    \* number of transaction uuids handed out by uuid.NewV4
    cards,      \* table Cards: key <<accountId, cardId>> -> item
    nextCard,   \* number of card uuids handed out by uuid.NewV4
    posted,     \* history: per account key, what was written to its balance
    proc,       \* concurrent postTransaction calls: position and locals
    now,        \* wall clock, in minutes
    issued,     \* tokens handed out by BuildToken, with their issue time
    userTable,  \* table Users: key email -> item
    last        \* the call that just returned: operation, result, store calls

vars ==
    <<accounts, txns, nextAccount, nextTxn, cards, nextCard, posted, proc, now, issued,
      userTable, last>>

----------------------------------------------------------------------------
(* Bounds of the model *)

MaxAccounts == 1       \* account items, sequential ledger
MaxPosts == 2          \* postTransaction calls, sequential ledger
MaxRacers == 2         \* concurrent postTransaction calls
MaxTokens == 2         \* BuildToken calls
MaxStored == 2         \* items in the tables behind the gateway
MaxCards == 2          \* card items, card lifecycle
MaxHistory == 3        \* transaction uuids handed out, transaction history
MaxClock == 90         \* minutes the clock runs
ClockStep == 30        \* minutes between two observations of the clock

----------------------------------------------------------------------------
(* Identifier strings.  A string is <<form, n>>: the canonical text of     *)
(* uuid n, another accepted spelling of uuid n (upper case, braces,        *)
(* urn:uuid: prefix), a text that is no uuid, or the empty string.         *)

Canon(n) == <<"canon", n>>
AltForm(n) == <<"alt", n>>
BadStr == <<"bad", 0>>
EmptyStr == <<"empty", 0>>

NoUUID == 0

\* uuid.FromString: the uuid a text denotes, NoUUID when it is malformed
FromString(s) == IF s[1] \in {"canon", "alt"} THEN s[2] ELSE NoUUID

\* uuid.UUID.String: the canonical text
UUIDString(u) == Canon(u)

\* a generator that hands out one uuid again and again
NewV4Repeats(k) == Canon(1)

\* uuid.NewV4().String(): the k-th generated uuid, never handed out before
NewV4(k) == Canon(k + 1)

BankUUID == 1
BankStrs == {Canon(BankUUID), BadStr}

----------------------------------------------------------------------------
(* The store (DynamoDB).  An item is kept as the record the code           *)
(* unmarshals it into: an attribute that is absent reads as the zero value.*)

\* DynamoDB rejects a key attribute that is an empty string
KeyAccepted(key) == key[1] # EmptyStr /\ key[2] # EmptyStr

\* a put the store acknowledges and drops
PutItemLost(table, key, item) == table

\* PutItem: the item replaces whatever is stored at its key
PutItem(table, key, item) ==
    [k \in DOMAIN table \cup {key} |-> IF k = key THEN item ELSE table[k]]

\* new(BankAccount): the zero value
ZeroAccount ==
    [bankId |-> EmptyStr, accountId |-> EmptyStr, accountName |-> "",
     accountType |-> "", last4 |-> "", currentBalance |-> 0]

\* GetItem + UnmarshalMap: an empty result leaves the zero value in place
GetUserBankAccount(table, bankId, accountId) ==
    LET key == <<UUIDString(bankId), UUIDString(accountId)>>
    IN  IF key \in DOMAIN table THEN table[key] ELSE ZeroAccount

\* an update that sets the attributes on every item of the table
UpdateItemAccountAll(table, key, fields) ==
    [k \in DOMAIN table \cup {key} |->
        [f \in DOMAIN ZeroAccount |->
            IF f \in DOMAIN fields THEN fields[f]
            ELSE IF f = "bankId" THEN k[1] ELSE k[2]]]

\* UpdateItem with SET expressions: the named attributes are overwritten;
\* an item that does not exist is created from the key and the SET values
UpdateItemAccount(table, key, fields) ==
    LET old == IF key \in DOMAIN table
               THEN table[key]
               ELSE [ZeroAccount EXCEPT !.bankId = key[1], !.accountId = key[2]]
        new == [f \in DOMAIN old |-> IF f \in DOMAIN fields THEN fields[f] ELSE old[f]]
    IN  PutItem(table, key, new)

----------------------------------------------------------------------------
(* Results *)

NoError == "none"
ValidationError == "ValidationError"
PersistenceError == "PersistenceError"
AuthError == "AuthError"

Nil == [nil |-> TRUE]

Returned(op, arg, err, calls, val) ==
    [op |-> op, arg |-> arg, err |-> err, calls |-> calls, val |-> val]

----------------------------------------------------------------------------
(* Ledger *)

Abs(x) == IF x < 0 THEN -x ELSE x

\* a CREDIT that is added like every other type
NewBalanceCreditAdds(currBalance, txnAmount, txnType) == currBalance + txnAmount

\* a CREDIT that subtracts the amount as given, sign included
NewBalanceSigned(currBalance, txnAmount, txnType) ==
    currBalance + (IF txnType = "CREDIT" THEN -txnAmount ELSE txnAmount)

\* BankAccount.UpdateCurrentBalance, service.go:174-178: the new balance
NewBalance(currBalance, txnAmount, txnType) ==
    currBalance + (IF txnType = "CREDIT" THEN Abs(txnAmount) * (-1) ELSE txnAmount)

\* Transaction.Save, service.go:440-455: the id is assigned and the record put
TxnKey(t) == <<t.accountId, t.transactionId>>

\* an identifier made from the date of the transaction
WithTransactionIdOfDate(t, k) ==
    [accountId |-> t.accountId, transactionId |-> Canon(t.transactionDate),
     transactionDate |-> t.transactionDate, amount |-> t.amount,
     transactionType |-> t.transactionType]

\* t.TransactionId = uuid.NewV4().String(), service.go:440
WithTransactionId(t, k) ==
    [accountId |-> t.accountId, transactionId |-> NewV4(k),
     transactionDate |-> t.transactionDate, amount |-> t.amount,
     transactionType |-> t.transactionType]

\* a write of the transaction that is stored although the store reports failure
PutTransactionStored(t, fail) == KeyAccepted(TxnKey(t))

PutTransactionOk(t, fail) == fail # "put" /\ KeyAccepted(TxnKey(t))

\* Transaction.Save, service.go:456-465: the account id is parsed, the account read
AccountIdOf(t) == FromString(t.accountId)

\* a balance write that always lands on the first account of the bank
BalanceKeyOfBank(a) == <<a.bankId, Canon(1)>>

\* BankAccount.UpdateCurrentBalance, service.go:172-210: the write of the balance,
\* keyed by the ids of the account record that was read
BalanceKey(a) == <<a.bankId, a.accountId>>

\* a balance write that is repeated until the store takes it
UpdateBalanceRetried(a, fail) == KeyAccepted(BalanceKey(a))

UpdateBalanceOk(a, fail) == fail # "update" /\ KeyAccepted(BalanceKey(a))

\* a balance write that adds the delta to the value stored at the time of the write
UpdateCurrentBalanceAtomic(table, a, txnAmount, txnType) ==
    UpdateItemAccount(table, BalanceKey(a),
        [currentBalance |->
            NewBalance(GetUserBankAccount(table, FromString(a.bankId),
                                          FromString(a.accountId)).currentBalance,
                       txnAmount, txnType)])

\* a balance write that starts from zero instead of the balance read
UpdateCurrentBalanceFromZero(table, a, txnAmount, txnType) ==
    UpdateItemAccount(table, BalanceKey(a),
        [currentBalance |-> NewBalance(0, txnAmount, txnType)])

\* a balance write that puts back the whole record that was read
UpdateCurrentBalanceOfRecord(table, a, txnAmount, txnType) ==
    PutItem(table, BalanceKey(a),
        [a EXCEPT !.currentBalance = NewBalance(a.currentBalance, txnAmount, txnType)])

\* BankAccount.UpdateCurrentBalance, service.go:179-209: SET currentBalance
UpdateCurrentBalance(table, a, txnAmount, txnType) ==
    UpdateItemAccount(table, BalanceKey(a),
        [currentBalance |-> NewBalance(a.currentBalance, txnAmount, txnType)])

\* history: a successful post is appended to the account's ledger
RecordPost(hist, key, t) ==
    IF key \in DOMAIN hist
    THEN [hist EXCEPT ![key].posts =
            Append(@, [transactionType |-> t.transactionType, amount |-> t.amount])]
    ELSE hist

\* history: the balance an account was created with, and the last balance
\* written by saveAccount or updateAccount
RecordBalance(hist, key, balance) ==
    IF key \in DOMAIN hist
    THEN [hist EXCEPT ![key].base = balance, ![key].since = Len(hist[key].posts)]
    ELSE PutItem(hist, key,
            [created |-> balance, base |-> balance, posts |-> <<>>, since |-> 0])

\* Transaction.Save, service.go:439-472: the whole call, with the store call
\* that fails (if any) as an input
SaveTransaction(bankId, txn, fail) ==
    LET t == WithTransactionId(txn, nextTxn)
        putTxns == PutItem(txns, TxnKey(t), t)
        a == GetUserBankAccount(accounts, bankId, AccountIdOf(t))
    IN  IF ~PutTransactionOk(t, fail)
        THEN [txns |-> txns, accounts |-> accounts, posted |-> posted,
              err |-> PersistenceError, calls |-> <<"PutItem">>, val |-> Nil]
        ELSE IF AccountIdOf(t) = NoUUID
        THEN [txns |-> putTxns, accounts |-> accounts, posted |-> posted,
              err |-> ValidationError, calls |-> <<"PutItem">>, val |-> Nil]
        ELSE IF fail = "get"
        THEN [txns |-> putTxns, accounts |-> accounts, posted |-> posted,
              err |-> PersistenceError, calls |-> <<"PutItem", "GetItem">>, val |-> Nil]
        ELSE IF ~UpdateBalanceOk(a, fail)
        THEN [txns |-> putTxns, accounts |-> accounts, posted |-> posted,
              err |-> PersistenceError,
              calls |-> <<"PutItem", "GetItem", "UpdateItem">>, val |-> Nil]
        ELSE [txns |-> putTxns,
              accounts |-> UpdateCurrentBalance(accounts, a, t.amount, t.transactionType),
              posted |-> RecordPost(posted, BalanceKey(a), t),
              err |-> NoError,
              calls |-> <<"PutItem", "GetItem", "UpdateItem">>, val |-> t]

PostFailures == {"none", "put", "get", "update"}

\* saveTransaction resolver, part_000:278-292, and Transaction.Save:
\* the bankId argument is parsed before Save is called
PostTransaction(bankStrs, txnInputs, fails, maxPosts) ==
    \E bankStr \in bankStrs, txn \in txnInputs, fail \in fails :
        /\ nextTxn < maxPosts
        /\ IF FromString(bankStr) = NoUUID
           THEN /\ fail = "none"
                /\ last' = Returned("postTransaction",
                                    [ids |-> <<bankStr, txn.accountId>>, txn |-> txn, fail |-> fail],
                                    ValidationError, <<>>, Nil)
                /\ UNCHANGED <<accounts, txns, nextTxn, posted>>
           ELSE LET r == SaveTransaction(FromString(bankStr), txn, fail)
                IN  /\ txns' = r.txns
                    /\ accounts' = r.accounts
                    /\ posted' = r.posted
                    /\ nextTxn' = nextTxn + 1
                    /\ last' = Returned("postTransaction",
                                        [ids |-> <<bankStr, txn.accountId>>, txn |-> txn, fail |-> fail],
                                        r.err, r.calls, r.val)
        /\ UNCHANGED <<nextAccount, proc, now, issued, cards, nextCard, userTable>>

\* BankAccountInput, part_000:508-519: currentBalance is the one optional field
Profiles ==
    { [accountName |-> "checking", accountType |-> "CHK", last4 |-> "1111",
       currentBalance |-> 100],
      [accountName |-> "savings", accountType |-> "SAV", last4 |-> "2222"] }

\* mapstructure.Decode into new(BankAccount): a field the input lacks keeps
\* the zero value
DecodedBalance(p) == IF "currentBalance" \in DOMAIN p THEN p.currentBalance ELSE 0

AccountOf(bankId, accountId, p) ==
    [bankId |-> bankId, accountId |-> accountId,
     accountName |-> p.accountName, accountType |-> p.accountType,
     last4 |-> p.last4, currentBalance |-> DecodedBalance(p)]

\* saveBankAccount resolver, part_000:199-208, and BankAccount.Save, service.go:107-125
SaveAccount(bankStrs, fails, maxAccounts) ==
    \E bankStr \in bankStrs, p \in Profiles, fail \in fails :
        LET a == AccountOf(bankStr, NewV4(nextAccount), p)
            key == <<a.bankId, a.accountId>>
        IN  /\ nextAccount < maxAccounts
            /\ Cardinality(DOMAIN accounts) < maxAccounts
            /\ nextAccount' = nextAccount + 1
            /\ IF fail \/ ~KeyAccepted(key)
               THEN /\ last' = Returned("saveAccount", [ids |-> <<bankStr>>],
                                        PersistenceError, <<"PutItem">>, Nil)
                    /\ UNCHANGED <<accounts, posted>>
               ELSE /\ accounts' = PutItem(accounts, key, a)
                    /\ posted' = RecordBalance(posted, key, a.currentBalance)
                    /\ last' = Returned("saveAccount", [ids |-> <<bankStr>>],
                                        NoError, <<"PutItem">>, a)
            /\ UNCHANGED <<txns, nextTxn, proc, now, issued, cards, nextCard, userTable>>

\* updateBankAccount resolver, part_000:218-227, and BankAccount.Update, service.go:130-166
UpdateAccount(bankStrs, accountStrs, fails, maxAccounts) ==
    \E bankStr \in bankStrs, idStr \in accountStrs, p \in Profiles, fail \in fails :
        LET a == AccountOf(bankStr, idStr, p)
            key == <<a.bankId, a.accountId>>
        IN  /\ key \in DOMAIN accounts \/ Cardinality(DOMAIN accounts) < maxAccounts
            /\ IF fail \/ ~KeyAccepted(key)
               THEN /\ last' = Returned("updateAccount",
                                        [ids |-> <<bankStr, idStr>>],
                                        PersistenceError, <<"UpdateItem">>, Nil)
                    /\ UNCHANGED <<accounts, posted>>
               ELSE /\ accounts' = UpdateItemAccount(accounts, key,
                            [accountName |-> a.accountName, accountType |-> a.accountType,
                             last4 |-> a.last4, currentBalance |-> a.currentBalance])
                    /\ posted' = RecordBalance(posted, key, a.currentBalance)
                    /\ last' = Returned("updateAccount",
                                        [ids |-> <<bankStr, idStr>>, acct |-> p],
                                        NoError, <<"UpdateItem">>, a)
            /\ UNCHANGED <<txns, nextAccount, nextTxn, proc, now, issued, cards, nextCard, userTable>>

----------------------------------------------------------------------------
(* Inputs *)

\* the account ids handed to clients so far
GivenAccountStrs == {Canon(n) : n \in 1..nextAccount}

\* every type with an amount of either sign
LedgerTxnInputs ==
    { [accountId |-> id, transactionDate |-> 1,
       amount |-> ta[2], transactionType |-> ta[1]] :
        id \in GivenAccountStrs,
        ta \in {<<"DEBIT", 50>>, <<"CREDIT", 30>>, <<"CREDIT", -30>>, <<"REFUND", -30>>} }

----------------------------------------------------------------------------
(* Sequential use of the ledger: one call at a time, well-formed ids *)

EmptyTable == [k \in {} |-> Nil]

Init ==
    /\ accounts = EmptyTable
    /\ txns = EmptyTable
    /\ nextAccount = 0
    /\ nextTxn = 0
    /\ cards = EmptyTable
    /\ nextCard = 0
    /\ posted = EmptyTable
    /\ proc = EmptyTable
    /\ now = 0
    /\ issued = {}
    /\ userTable = EmptyTable
    /\ last = Returned("init", Nil, NoError, <<>>, Nil)

LedgerSaveAccount == SaveAccount({Canon(BankUUID)}, {FALSE}, MaxAccounts)

LedgerUpdateAccount == UpdateAccount({Canon(BankUUID)}, GivenAccountStrs, {FALSE}, MaxAccounts)

LedgerPostTransaction ==
    PostTransaction({Canon(BankUUID)}, LedgerTxnInputs, PostFailures, MaxPosts)

Next == LedgerSaveAccount \/ LedgerUpdateAccount \/ LedgerPostTransaction

Spec == Init /\ [][Next]_vars

----------------------------------------------------------------------------
(* Properties of the sequential ledger *)

\* the delta the specification gives a transaction: DEBIT adds, CREDIT subtracts
SignedAmount(p) == IF p.transactionType = "CREDIT" THEN -p.amount ELSE p.amount

RECURSIVE FoldSigned(_)
FoldSigned(posts) ==
    IF posts = <<>> THEN 0
    ELSE SignedAmount(Head(posts)) + FoldSigned(Tail(posts))

\* the transactions the data model allows: DEBIT or CREDIT, unsigned amount
Unsigned(posts) ==
    \A i \in 1..Len(posts) :
        posts[i].transactionType \in {"DEBIT", "CREDIT"} /\ posts[i].amount >= 0

PostsSince(h) == SubSeq(h.posts, h.since + 1, Len(h.posts))

\* C1: an account created with balance B0 and not edited since, after any
\* sequential series of successful posts of DEBIT/CREDIT transactions with
\* amount >= 0, holds B0 plus the sum of +amount per DEBIT and -amount per CREDIT.
C1_BalanceFold ==
    \A k \in DOMAIN accounts :
        (posted[k].since = 0 /\ posted[k].base = posted[k].created
            /\ Unsigned(posted[k].posts))
        => accounts[k].currentBalance = posted[k].created + FoldSigned(posted[k].posts)

\* C1 witness: balance 100, DEBIT 50 gives 150, CREDIT 30 gives 120
C1_Witness ==
    \E k \in DOMAIN accounts :
        /\ posted[k].created = 100 /\ posted[k].since = 0 /\ posted[k].base = 100
        /\ posted[k].posts = << [transactionType |-> "DEBIT", amount |-> 50],
                               [transactionType |-> "CREDIT", amount |-> 30] >>
        /\ accounts[k].currentBalance = 120

PostReturned == last.op = "postTransaction"

\* C3: a post whose account read or balance write fails after the record was
\* put returns an error and no transaction, leaves the new record stored and
\* every account as it was, and issues no store call after the failed one.
C3_PartialFailure ==
    [][ (last'.op = "postTransaction" /\ last'.arg.fail \in {"get", "update"}
            /\ Len(last'.calls) >= 2)
        => /\ last'.err = PersistenceError
           /\ last'.val = Nil
           /\ \E key \in DOMAIN txns' \ DOMAIN txns :
                /\ DOMAIN txns' = DOMAIN txns \cup {key}
                /\ txns'[key].amount = last'.arg.txn.amount
                /\ txns'[key].accountId = last'.arg.txn.accountId
           /\ accounts' = accounts
           /\ last'.calls = (IF last'.arg.fail = "get"
                             THEN <<"PutItem", "GetItem">>
                             ELSE <<"PutItem", "GetItem", "UpdateItem">>) ]_vars

\* C3 witness: the balance write failed, the record of the transaction is
\* stored and the balance of its account is the one it was created with
C3_Witness ==
    /\ PostReturned /\ last.arg.fail = "update" /\ last.err = PersistenceError
    /\ \E key \in DOMAIN txns : key[1] = last.arg.txn.accountId
    /\ \E k \in DOMAIN accounts :
        /\ k[2] = last.arg.txn.accountId
        /\ posted[k].posts = <<>> /\ posted[k].since = 0
        /\ accounts[k].currentBalance = posted[k].created

\* C4 as claimed: after any sequential saveAccount, updateAccount and
\* postTransaction calls, every balance is the balance the account was created
\* with plus the fold of all the transactions posted against it.
C4_LedgerFromCreation ==
    \A k \in DOMAIN accounts :
        Unsigned(posted[k].posts)
        => accounts[k].currentBalance = posted[k].created + FoldSigned(posted[k].posts)

\* C4 amended: every balance is the balance last written by saveAccount or
\* updateAccount plus the fold, in post order, of the DEBIT/CREDIT
\* transactions (amount >= 0) posted since that write.
C4_LedgerFromLastWrite ==
    \A k \in DOMAIN accounts :
        Unsigned(PostsSince(posted[k]))
        => accounts[k].currentBalance = posted[k].base + FoldSigned(PostsSince(posted[k]))

\* C4 witness: a post, then an edit that sets another balance, then a post
C4_Witness ==
    \E k \in DOMAIN accounts :
        /\ posted[k].since = 1 /\ Len(posted[k].posts) = 2
        /\ Unsigned(posted[k].posts)
        /\ posted[k].base # posted[k].created + FoldSigned(SubSeq(posted[k].posts, 1, 1))
        /\ accounts[k].currentBalance # posted[k].created + FoldSigned(posted[k].posts)

----------------------------------------------------------------------------
(* Concurrent posts.  Each request runs Transaction.Save on its own          *)
(* goroutine; the store serialises single calls, nothing serialises the      *)
(* three calls of one Save.  proc[p] is request p: where it is and its locals.*)

Racers == 1..MaxRacers

Idle == [pc |-> "idle", bankId |-> NoUUID, txn |-> Nil, acct |-> Nil, err |-> NoError]

RaceTxnInputs ==
    { [accountId |-> id, transactionDate |-> 1,
       amount |-> ta[2], transactionType |-> ta[1]] :
        id \in GivenAccountStrs, ta \in {<<"DEBIT", 50>>, <<"CREDIT", 30>>} }

Finish(p, err) == proc' = [proc EXCEPT ![p].pc = "done", ![p].err = err]

\* saveTransaction resolver, part_000:278-292, and Transaction.Save,
\* service.go:440-455: the id is assigned and the record put
PostPutOf(p, txnInputs, fails) ==
    \E txn \in txnInputs, fail \in fails :
        LET t == WithTransactionId(txn, nextTxn)
        IN  /\ proc[p].pc = "idle"
            /\ nextTxn' = nextTxn + 1
            /\ IF ~PutTransactionOk(t, fail)
               THEN /\ Finish(p, PersistenceError)
                    /\ UNCHANGED txns
               ELSE /\ txns' = PutItem(txns, TxnKey(t), t)
                    /\ proc' = [proc EXCEPT ![p].pc = "read", ![p].txn = t,
                                            ![p].bankId = BankUUID]
            /\ UNCHANGED <<accounts, nextAccount, posted, now, issued, last, cards, nextCard, userTable>>

PostPut(p) == PostPutOf(p, RaceTxnInputs, {"none", "put"})

\* Transaction.Save, service.go:456-465: the account is read
PostGet(p) ==
    \E fail \in {"none", "get"} :
        /\ proc[p].pc = "read"
        /\ IF AccountIdOf(proc[p].txn) = NoUUID
           THEN Finish(p, ValidationError)
           ELSE IF fail = "get"
           THEN Finish(p, PersistenceError)
           ELSE proc' = [proc EXCEPT ![p].pc = "write",
                    ![p].acct = GetUserBankAccount(accounts, proc[p].bankId,
                                                   AccountIdOf(proc[p].txn))]
        /\ UNCHANGED <<accounts, txns, nextAccount, nextTxn, posted, now, issued, last, cards, nextCard, userTable>>

\* Transaction.Save, service.go:466-471: the balance is written
PostUpdate(p) ==
    \E fail \in {"none", "update"} :
        /\ proc[p].pc = "write"
        /\ IF ~UpdateBalanceOk(proc[p].acct, fail)
           THEN /\ Finish(p, PersistenceError)
                /\ UNCHANGED <<accounts, posted>>
           ELSE /\ accounts' = UpdateCurrentBalance(accounts, proc[p].acct,
                        proc[p].txn.amount, proc[p].txn.transactionType)
                /\ posted' = RecordPost(posted, BalanceKey(proc[p].acct), proc[p].txn)
                /\ Finish(p, NoError)
        /\ UNCHANGED <<txns, nextAccount, nextTxn, now, issued, last, cards, nextCard, userTable>>

InitRace ==
    /\ accounts = EmptyTable
    /\ txns = EmptyTable
    /\ nextAccount = 0
    /\ nextTxn = 0
    /\ cards = EmptyTable
    /\ nextCard = 0
    /\ posted = EmptyTable
    /\ proc = [p \in Racers |-> Idle]
    /\ now = 0
    /\ issued = {}
    /\ userTable = EmptyTable
    /\ last = Returned("init", Nil, NoError, <<>>, Nil)

RaceSaveAccount ==
    /\ SaveAccount({Canon(BankUUID)}, {FALSE}, 1)
    /\ \A p \in Racers : proc[p].pc = "idle"

RacePost == \E p \in Racers : PostPut(p) \/ PostGet(p) \/ PostUpdate(p)

NextRace == RaceSaveAccount \/ RacePost

SpecRace == InitRace /\ [][NextRace]_vars

----------------------------------------------------------------------------
(* Properties of concurrent posts *)

Succeeded(p) == proc[p].pc = "done" /\ proc[p].err = NoError

\* C2: posts against one account are not serialised: every post that returns
\* successfully has stored its record and has written the balance it read
\* plus its own delta, whatever was stored at the time of the write.
C2_WritesReadPlusDelta ==
    /\ [](\A p \in Racers : Succeeded(p) => TxnKey(proc[p].txn) \in DOMAIN txns)
    /\ [][ \A p \in Racers :
            (proc[p].pc = "write" /\ proc'[p].pc = "done" /\ proc'[p].err = NoError)
            => accounts'[BalanceKey(proc[p].acct)].currentBalance
                 = proc[p].acct.currentBalance + SignedAmount(proc[p].txn) ]_vars

\* C2 witness: two posts returned successfully, both records are stored and
\* the balance holds the delta of only one of them
C2_LostUpdate ==
    \E p, q \in Racers, k \in DOMAIN accounts :
        /\ p # q /\ Succeeded(p) /\ Succeeded(q) /\ nextTxn = 2
        /\ BalanceKey(proc[p].acct) = k /\ BalanceKey(proc[q].acct) = k
        /\ TxnKey(proc[p].txn) \in DOMAIN txns /\ TxnKey(proc[q].txn) \in DOMAIN txns
        /\ accounts[k].currentBalance = posted[k].created + SignedAmount(proc[q].txn)
        /\ accounts[k].currentBalance
             # posted[k].created + SignedAmount(proc[p].txn) + SignedAmount(proc[q].txn)

----------------------------------------------------------------------------
(* Token authority, authentication.go.                                     *)
(* A signed token is the record of what the JWT library reads from it: the  *)
(* algorithm, the claims and the key it was signed with.  A header value is *)
(* nil, a string (a sequence of segments: a text or a token), or a value of *)
(* another type.                                                            *)

tokenExpiryMin == 60
bearerTokenKey == [kind |-> "text", text |-> "Bearer "]

Text(t) == [kind |-> "text", text |-> t]

NoExp == -1

Secrets == {"s1", "s2"}

Users == { [email |-> "a@x.com", name |-> "Ann"], [email |-> "b@x.com", name |-> "Bob"] }

\* jwt.NewWithClaims(HS256, {email, name}).SignedString(secret)
SignedString(alg, claims, secret) ==
    [kind |-> "jwt", alg |-> alg, email |-> claims.email, name |-> claims.name,
     exp |-> claims.exp, key |-> secret]

\* authSvc.BuildToken, authentication.go:69-82: the token and its expiry time
BuildToken(authSecret, user, time) ==
    [token |-> SignedString("HS256",
                    [email |-> user.email, name |-> user.name, exp |-> NoExp],
                    authSecret),
     expiresAt |-> time + tokenExpiryMin]

NilHeader == [type |-> "nil", segs |-> <<>>]
IntHeader == [type |-> "int", segs |-> <<>>]
StringHeader(segs) == [type |-> "string", segs |-> segs]
Bearer(token) == StringHeader(<<bearerTokenKey, token>>)

\* strings.HasPrefix(header, "Bearer ")
HasPrefix(segs, prefix) == Len(segs) > 0 /\ segs[1] = prefix

\* strings.Replace(header, "Bearer ", "", -1): every occurrence is removed
RECURSIVE Replace(_, _)
Replace(segs, old) ==
    IF segs = <<>> THEN <<>>
    ELSE IF Head(segs) = old THEN Replace(Tail(segs), old)
    ELSE <<Head(segs)>> \o Replace(Tail(segs), old)

HMACMethods == {"HS256", "HS384", "HS512"}

\* a parser that does not compare the signature with the secret
JwtParseUnverified(segs, authSecret, time) ==
    IF Len(segs) # 1 \/ segs[1].kind # "jwt" THEN [ok |-> FALSE, claims |-> Nil]
    ELSE IF segs[1].alg \notin HMACMethods THEN [ok |-> FALSE, claims |-> Nil]
    ELSE [ok |-> TRUE, claims |-> [email |-> segs[1].email, name |-> segs[1].name]]

\* jwt.Parse with the key function of authentication.go:102-110: the text
\* must be one token, its method HMAC, its exp claim (if it has one) not
\* passed, its signature made with the secret
JwtParse(segs, authSecret, time) ==
    IF Len(segs) # 1 \/ segs[1].kind # "jwt" THEN [ok |-> FALSE, claims |-> Nil]
    ELSE IF segs[1].alg \notin HMACMethods THEN [ok |-> FALSE, claims |-> Nil]
    ELSE IF segs[1].exp # NoExp /\ time > segs[1].exp THEN [ok |-> FALSE, claims |-> Nil]
    ELSE IF segs[1].key # authSecret THEN [ok |-> FALSE, claims |-> Nil]
    ELSE [ok |-> TRUE, claims |-> [email |-> segs[1].email, name |-> segs[1].name]]

Panic == "panic"

\* a validation that takes any non-empty string for a token
ValidateTokenAnyScheme(authSecret, authHeader, time) ==
    IF authHeader.type = "nil" THEN [err |-> AuthError, claims |-> Nil]
    ELSE IF authHeader.type # "string" THEN [err |-> Panic, claims |-> Nil]
    ELSE IF authHeader.segs = <<>> THEN [err |-> AuthError, claims |-> Nil]
    ELSE LET parsed == JwtParse(Replace(authHeader.segs, bearerTokenKey), authSecret, time)
         IN  IF parsed.ok THEN [err |-> NoError, claims |-> parsed.claims]
             ELSE [err |-> AuthError, claims |-> Nil]

\* authSvc.ValidateToken, authentication.go:87-121
ValidateToken(authSecret, authHeader, time) ==
    IF authHeader.type = "nil" THEN [err |-> AuthError, claims |-> Nil]
    ELSE IF authHeader.type # "string" THEN [err |-> Panic, claims |-> Nil]
    ELSE IF authHeader.segs = <<>> THEN [err |-> AuthError, claims |-> Nil]
    ELSE IF ~HasPrefix(authHeader.segs, bearerTokenKey)
    THEN [err |-> AuthError, claims |-> Nil]
    ELSE LET parsed == JwtParse(Replace(authHeader.segs, bearerTokenKey), authSecret, time)
         IN  IF parsed.ok THEN [err |-> NoError, claims |-> parsed.claims]
             ELSE [err |-> AuthError, claims |-> Nil]

\* tokens a client can present: issued by a service holding either secret,
\* carrying an exp claim, unsigned, signed with another method
AnyUser == CHOOSE u \in Users : u.email = "a@x.com"

Tokens ==
    { BuildToken(s, u, 0).token : s \in Secrets, u \in Users }
    \cup { SignedString(alg, [email |-> AnyUser.email, name |-> AnyUser.name,
                              exp |-> NoExp], "s1") : alg \in {"none", "RS256"} }
    \cup { SignedString("HS256", [email |-> AnyUser.email, name |-> AnyUser.name,
                                  exp |-> tokenExpiryMin], "s1") }

Headers ==
    {NilHeader, IntHeader, StringHeader(<<>>), StringHeader(<<bearerTokenKey>>),
     StringHeader(<<bearerTokenKey, Text("garbage")>>),
     StringHeader(<<Text("Basic "), BuildToken("s1", AnyUser, 0).token>>),
     StringHeader(<<BuildToken("s1", AnyUser, 0).token>>),
     StringHeader(<<bearerTokenKey, bearerTokenKey, BuildToken("s1", AnyUser, 0).token>>)}
    \cup { Bearer(t) : t \in Tokens }

\* Authenticate, part_002:97-109: a token is built for a user
IssueToken ==
    \E s \in Secrets, u \in Users :
        LET b == BuildToken(s, u, now)
        IN  /\ Cardinality(issued) < MaxTokens
            /\ issued' = issued \cup
                    {[token |-> b.token, expiresAt |-> b.expiresAt,
                      email |-> u.email, secret |-> s, at |-> now]}
            /\ last' = Returned("issueToken", [secret |-> s, email |-> u.email],
                                NoError, <<>>, b)
            /\ UNCHANGED <<accounts, txns, nextAccount, nextTxn, posted, proc, now, cards, nextCard, userTable>>

\* time passes
Tick ==
    /\ now + ClockStep <= MaxClock
    /\ now' = now + ClockStep
    /\ UNCHANGED <<accounts, txns, nextAccount, nextTxn, posted, proc, issued, last, cards, nextCard, userTable>>

\* a call of ValidateToken on a service holding secret s
CheckToken ==
    \E s \in Secrets, h \in Headers :
        LET v == ValidateToken(s, h, now)
        IN  /\ last' = Returned("validateToken", [secret |-> s, header |-> h, at |-> now],
                                v.err, <<>>, v.claims)
            /\ UNCHANGED <<accounts, txns, nextAccount, nextTxn, posted, proc, now, issued, cards, nextCard, userTable>>

NextAuth == IssueToken \/ Tick \/ CheckToken

SpecAuth == Init /\ [][NextAuth]_vars

----------------------------------------------------------------------------
(* Properties of the token authority *)

Validated == last.op = "validateToken"

\* C8 as claimed: a token built by BuildToken is rejected by ValidateToken
\* once the 60 minutes after its issue have passed.
C8_ExpiredTokenRejected ==
    \A i \in issued :
        (Validated /\ last.arg.header = Bearer(i.token) /\ last.arg.secret = i.secret
            /\ last.arg.at > i.at + tokenExpiryMin)
        => last.err = AuthError

\* C9: a token built for a user validates, as "Bearer " + token, under the
\* secret it was signed with and yields claims with that user's email; under
\* another secret it is rejected.
C9_RoundTrip ==
    \A i \in issued :
        (Validated /\ last.arg.header = Bearer(i.token))
        => IF last.arg.secret = i.secret
           THEN last.err = NoError /\ last.val # Nil /\ last.val.email = i.email
           ELSE last.err = AuthError /\ last.val = Nil

\* C9 witnesses: one token accepted under its secret, rejected under the other
C9_Witness ==
    \E i \in issued :
        /\ Validated /\ last.arg.header = Bearer(i.token)
        /\ last.arg.secret # i.secret /\ last.err = AuthError
        /\ ValidateToken(i.secret, last.arg.header, now).claims # Nil
        /\ ValidateToken(i.secret, last.arg.header, now).claims.email = i.email

\* C10: a header value that is nil, the empty string or a string that does
\* not start with "Bearer " gets an authentication error: no panic, no claims.
C10_MalformedHeaderRejected ==
    (Validated /\ \/ last.arg.header.type = "nil"
                  \/ /\ last.arg.header.type = "string"
                     /\ \/ last.arg.header.segs = <<>>
                        \/ Head(last.arg.header.segs) # bearerTokenKey)
    => last.err = AuthError /\ last.val = Nil

\* C10 witness: a validly signed token sent without the scheme is rejected
C10_Witness ==
    /\ Validated /\ last.err = AuthError
    /\ last.arg.header.type = "string" /\ Len(last.arg.header.segs) = 1
    /\ JwtParse(last.arg.header.segs, last.arg.secret, now).ok

----------------------------------------------------------------------------
(* Cards, service.go:313-368 *)

CardOf(accountId, cardId, active) ==
    [accountId |-> accountId, cardId |-> cardId, last4 |-> "4242",
     expiryMonth |-> "12", expiryYear |-> "30", cvv |-> "123", active |-> active]

\* new(Card): the zero value
ZeroCard ==
    [accountId |-> EmptyStr, cardId |-> EmptyStr, last4 |-> "",
     expiryMonth |-> "", expiryYear |-> "", cvv |-> "", active |-> FALSE]

\* an update that replaces the item by its key and the flag
UpdateItemCardReplaces(table, key, active) ==
    PutItem(table, key, [ZeroCard EXCEPT !.accountId = key[1], !.cardId = key[2],
                                         !.active = active])

\* an update that writes the opposite flag
UpdateItemCardActivates(table, key, active) ==
    LET old == IF key \in DOMAIN table
               THEN table[key]
               ELSE [ZeroCard EXCEPT !.accountId = key[1], !.cardId = key[2]]
    IN  PutItem(table, key, [old EXCEPT !.active = ~active])

\* UpdateItem on Cards: SET active; an item that does not exist is created
UpdateItemCard(table, key, active) ==
    LET old == IF key \in DOMAIN table
               THEN table[key]
               ELSE [ZeroCard EXCEPT !.accountId = key[1], !.cardId = key[2]]
    IN  PutItem(table, key, [old EXCEPT !.active = active])

\* a save that inactivates the other cards of the account first
SaveCardExclusive(accountStrs, fails, maxCards) ==
    \E idStr \in accountStrs, active \in BOOLEAN, fail \in fails :
        LET c == CardOf(idStr, NewV4(nextCard), active)
            key == <<c.accountId, c.cardId>>
        IN  /\ nextCard < maxCards
            /\ Cardinality(DOMAIN cards) < maxCards
            /\ nextCard' = nextCard + 1
            /\ IF fail \/ ~KeyAccepted(key)
               THEN /\ last' = Returned("saveCard", [ids |-> <<idStr>>, active |-> active],
                                        PersistenceError, <<"PutItem">>, Nil)
                    /\ UNCHANGED cards
               ELSE /\ cards' = PutItem([k \in DOMAIN cards |->
                                        IF k[1] = idStr
                                        THEN [cards[k] EXCEPT !.active = FALSE]
                                        ELSE cards[k]], key, c)
                    /\ last' = Returned("saveCard",
                                        [ids |-> <<idStr>>, active |-> active],
                                        NoError, <<"PutItem">>, c)
            /\ UNCHANGED <<accounts, txns, nextAccount, nextTxn, posted, proc, now, issued, userTable>>

\* saveAccountCard resolver, part_000:237-246, and Card.Save, service.go:313-331
SaveCard(accountStrs, fails, maxCards) ==
    \E idStr \in accountStrs, active \in BOOLEAN, fail \in fails :
        LET c == CardOf(idStr, NewV4(nextCard), active)
            key == <<c.accountId, c.cardId>>
        IN  /\ nextCard < maxCards
            /\ Cardinality(DOMAIN cards) < maxCards
            /\ nextCard' = nextCard + 1
            /\ IF fail \/ ~KeyAccepted(key)
               THEN /\ last' = Returned("saveCard", [ids |-> <<idStr>>, active |-> active],
                                        PersistenceError, <<"PutItem">>, Nil)
                    /\ UNCHANGED cards
               ELSE /\ cards' = PutItem(cards, key, c)
                    /\ last' = Returned("saveCard",
                                        [ids |-> <<idStr>>, active |-> active],
                                        NoError, <<"PutItem">>, c)
            /\ UNCHANGED <<accounts, txns, nextAccount, nextTxn, posted, proc, now, issued, userTable>>

\* inactivateAccountCard resolver, part_000:256-265, and Card.Inactivate,
\* service.go:336-368: the card of the input is returned, not the stored one
InactivateCard(accountStrs, cardStrs, fails, maxCards) ==
    \E idStr \in accountStrs, cardStr \in cardStrs, active \in {TRUE}, fail \in fails :
        LET c == CardOf(idStr, cardStr, active)
            key == <<c.accountId, c.cardId>>
        IN  /\ key \in DOMAIN cards \/ Cardinality(DOMAIN cards) < maxCards
            /\ IF fail \/ ~KeyAccepted(key)
               THEN /\ last' = Returned("inactivateCard", [ids |-> <<idStr, cardStr>>],
                                        PersistenceError, <<"UpdateItem">>, Nil)
                    /\ UNCHANGED cards
               ELSE /\ cards' = UpdateItemCard(cards, key, FALSE)
                    /\ last' = Returned("inactivateCard", [ids |-> <<idStr, cardStr>>],
                                        NoError, <<"UpdateItem">>, c)
            /\ UNCHANGED <<accounts, txns, nextAccount, nextTxn, nextCard, posted,
                           proc, now, issued, userTable>>

----------------------------------------------------------------------------
(* Queries, part_000:30-149 *)

\* the secret the service read from AUTH_SECRET, authentication.go:35-38
ServiceSecret == "s1"

\* authHeaderMiddleware, main.go:107-113: Header.Get gives "" for no header
AuthHeaderMiddleware(requestHeader) ==
    IF requestHeader.type = "nil" THEN StringHeader(<<>>) ELSE requestHeader

\* GetUserBankAccounts, service.go:45-74: the items of one bank
GetUserBankAccounts(table, bankId) ==
    {table[k] : k \in {x \in DOMAIN table : x[1] = UUIDString(bankId)}}

\* GetAccountCards, service.go:215-244: the items of one account
GetAccountCards(table, accountId) ==
    {table[k] : k \in {x \in DOMAIN table : x[1] = UUIDString(accountId)}}

\* GetAccountCard, service.go:249-272
GetAccountCard(table, accountId, cardId) ==
    LET key == <<UUIDString(accountId), UUIDString(cardId)>>
    IN  IF key \in DOMAIN table THEN table[key] ELSE ZeroCard

\* new(Transaction): the zero value
ZeroTransaction ==
    [accountId |-> EmptyStr, transactionId |-> EmptyStr, transactionDate |-> 0,
     amount |-> 0, transactionType |-> ""]

\* GetAccountTranscation, service.go:410-433
GetAccountTransaction(table, accountId, transactionId) ==
    LET key == <<UUIDString(accountId), UUIDString(transactionId)>>
    IN  IF key \in DOMAIN table THEN table[key] ELSE ZeroTransaction

Result(err, calls, val) == [err |-> err, calls |-> calls, val |-> val]

\* a list of records as a query returns it
List(items) == [items |-> items]

\* a resolver that parses the bankId before it looks at the token
BankAccountsIdFirst(requestHeader, bankStr, fail) ==
    LET v == ValidateToken(ServiceSecret, AuthHeaderMiddleware(requestHeader), now)
    IN  IF FromString(bankStr) = NoUUID THEN Result(ValidationError, <<>>, Nil)
        ELSE IF v.err # NoError THEN Result(v.err, <<>>, Nil)
        ELSE IF fail THEN Result(PersistenceError, <<"Query">>, Nil)
        ELSE Result(NoError, <<"Query">>,
                    List(GetUserBankAccounts(accounts, FromString(bankStr))))

\* a resolver that lists the accounts for one subject only
BankAccountsOfSubject(requestHeader, bankStr, fail) ==
    LET v == ValidateToken(ServiceSecret, AuthHeaderMiddleware(requestHeader), now)
    IN  IF v.err # NoError THEN Result(v.err, <<>>, Nil)
        ELSE IF FromString(bankStr) = NoUUID THEN Result(ValidationError, <<>>, Nil)
        ELSE IF fail THEN Result(PersistenceError, <<"Query">>, Nil)
        ELSE IF v.claims.email # AnyUser.email THEN Result(NoError, <<"Query">>, List({}))
        ELSE Result(NoError, <<"Query">>,
                    List(GetUserBankAccounts(accounts, FromString(bankStr))))

\* bankAccounts resolver, part_000:42-53
BankAccountsResolver(requestHeader, bankStr, fail) ==
    LET v == ValidateToken(ServiceSecret, AuthHeaderMiddleware(requestHeader), now)
    IN  IF v.err # NoError THEN Result(v.err, <<>>, Nil)
        ELSE IF FromString(bankStr) = NoUUID THEN Result(ValidationError, <<>>, Nil)
        ELSE IF fail THEN Result(PersistenceError, <<"Query">>, Nil)
        ELSE Result(NoError, <<"Query">>,
                    List(GetUserBankAccounts(accounts, FromString(bankStr))))

\* bankAccount resolver, part_000:66-78
BankAccountResolver(bankStr, idStr, fail) ==
    IF FromString(bankStr) = NoUUID \/ FromString(idStr) = NoUUID
    THEN Result(ValidationError, <<>>, Nil)
    ELSE IF fail THEN Result(PersistenceError, <<"GetItem">>, Nil)
    ELSE Result(NoError, <<"GetItem">>,
                GetUserBankAccount(accounts, FromString(bankStr), FromString(idStr)))

\* accountCards resolver, part_000:88-95
AccountCardsResolver(idStr, fail) ==
    IF FromString(idStr) = NoUUID THEN Result(ValidationError, <<>>, Nil)
    ELSE IF fail THEN Result(PersistenceError, <<"Query">>, Nil)
    ELSE Result(NoError, <<"Query">>, List(GetAccountCards(cards, FromString(idStr))))

\* accountCard resolver, part_000:108-120
AccountCardResolver(idStr, cardStr, fail) ==
    IF FromString(idStr) = NoUUID \/ FromString(cardStr) = NoUUID
    THEN Result(ValidationError, <<>>, Nil)
    ELSE IF fail THEN Result(PersistenceError, <<"GetItem">>, Nil)
    ELSE Result(NoError, <<"GetItem">>,
                GetAccountCard(cards, FromString(idStr), FromString(cardStr)))

\* accountTransaction resolver, part_000:133-145
AccountTransactionResolver(idStr, txnStr, fail) ==
    IF FromString(idStr) = NoUUID \/ FromString(txnStr) = NoUUID
    THEN Result(ValidationError, <<>>, Nil)
    ELSE IF fail THEN Result(PersistenceError, <<"GetItem">>, Nil)
    ELSE Result(NoError, <<"GetItem">>,
                GetAccountTransaction(txns, FromString(idStr), FromString(txnStr)))

\* a query leaves the store as it is
Answer(op, requestHeader, ids, r) ==
    /\ last' = Returned(op, [header |-> requestHeader, ids |-> ids], r.err, r.calls, r.val)
    /\ UNCHANGED <<accounts, txns, nextAccount, nextTxn, cards, nextCard, posted,
                   proc, now, issued, userTable>>

----------------------------------------------------------------------------
(* The gateway as a client sees it: any header, any identifier text *)

\* identifier texts besides the ones handed out: another spelling of the
\* first uuid, the uuid of nothing, a text that is no uuid
OddStrs == {AltForm(1), Canon(99), BadStr}

GatewayAccountStrs == GivenAccountStrs \cup OddStrs
GatewayCardStrs == {Canon(n) : n \in 1..nextCard} \cup {Canon(99), BadStr}
GatewayTxnStrs == {Canon(n) : n \in 1..nextTxn} \cup {Canon(99), BadStr}

\* the Authorization header of a request: none, or one of the header strings
RequestHeaders == Headers \ {IntHeader}

ListAccountsForBank ==
    \E h \in RequestHeaders, bankStr \in BankStrs :
        Answer("listAccountsForBank", h, <<bankStr>>, BankAccountsResolver(h, bankStr, FALSE))

\* the queries that do not read the header
PlainHeaders == {NilHeader, Bearer(BuildToken(ServiceSecret, AnyUser, 0).token)}

GetAccount ==
    \E h \in PlainHeaders, bankStr \in BankStrs, idStr \in GatewayAccountStrs :
        Answer("getAccount", h, <<bankStr, idStr>>, BankAccountResolver(bankStr, idStr, FALSE))

ListCards ==
    \E h \in PlainHeaders, idStr \in GatewayAccountStrs :
        Answer("listCards", h, <<idStr>>, AccountCardsResolver(idStr, FALSE))

GetCard ==
    \E h \in PlainHeaders, idStr \in GatewayAccountStrs, cardStr \in GatewayCardStrs :
        Answer("getCard", h, <<idStr, cardStr>>, AccountCardResolver(idStr, cardStr, FALSE))

GetTransaction ==
    \E h \in PlainHeaders, idStr \in GatewayAccountStrs, txnStr \in GatewayTxnStrs :
        Answer("getTransaction", h, <<idStr, txnStr>>,
               AccountTransactionResolver(idStr, txnStr, FALSE))

\* the items of the three tables
Stored ==
    Cardinality(DOMAIN accounts) + Cardinality(DOMAIN txns) + Cardinality(DOMAIN cards)

GatewaySaveAccount == Stored < MaxStored /\ SaveAccount({Canon(BankUUID)}, {FALSE}, MaxStored)

GatewayPostTransaction ==
    Stored < MaxStored /\ PostTransaction({Canon(BankUUID)},
                    [accountId : GivenAccountStrs, transactionDate : {1},
                     amount : {50}, transactionType : {"DEBIT"}],
                    {"none"}, MaxStored)

GatewaySaveCard ==
    Stored < MaxStored /\ SaveCard(GivenAccountStrs, {FALSE}, MaxStored)

NextGateway ==
    \/ GatewaySaveAccount \/ GatewayPostTransaction \/ GatewaySaveCard
    \/ ListAccountsForBank \/ GetAccount \/ ListCards \/ GetCard \/ GetTransaction

SpecGateway == Init /\ [][NextGateway]_vars

----------------------------------------------------------------------------
(* The mutations with any identifier text, part_000:152-296 *)

\* identifier texts of a mutation: the ones handed out, or a text that is no uuid
MutationAccountStrs == GivenAccountStrs \cup {BadStr}
MutationCardStrs == {Canon(n) : n \in 1..nextCard} \cup {BadStr}

MutationTxnInputs ==
    [accountId : MutationAccountStrs, transactionDate : {1},
     amount : {50}, transactionType : {"DEBIT"}]

MutationSaveAccount ==
    Stored < MaxStored /\ SaveAccount(BankStrs, {FALSE}, MaxStored)

MutationUpdateAccount ==
    Stored < MaxStored /\ UpdateAccount(BankStrs, MutationAccountStrs \cup {EmptyStr}, {FALSE}, MaxStored)

MutationPostTransaction ==
    Stored < MaxStored /\ PostTransaction(BankStrs, MutationTxnInputs, {"none"}, MaxStored)

MutationSaveCard ==
    Stored < MaxStored /\ SaveCard(MutationAccountStrs, {FALSE}, MaxStored)

MutationInactivateCard ==
    Stored < MaxStored /\ InactivateCard(MutationAccountStrs, MutationCardStrs, {FALSE}, MaxStored)

NextMutation ==
    \/ MutationSaveAccount \/ MutationUpdateAccount \/ MutationPostTransaction
    \/ MutationSaveCard \/ MutationInactivateCard

SpecMutation == Init /\ [][NextMutation]_vars

----------------------------------------------------------------------------
(* Properties of the gateway *)

Mutations == {"saveAccount", "updateAccount", "postTransaction", "saveCard", "inactivateCard"}

Queries == {"listAccountsForBank", "getAccount", "listCards", "getCard", "getTransaction"}

Malformed(ids) == \E n \in DOMAIN ids : FromString(ids[n]) = NoUUID

\* C5 as claimed: an operation given an identifier that is no well-formed
\* uuid fails with ValidationError before any store call is issued.
C5_MalformedIdRejected ==
    (last.op \in Mutations /\ Malformed(last.arg.ids))
    => last.err = ValidationError /\ last.calls = <<>>

\* the header is absent, empty, without the "Bearer " prefix, or its token
\* does not validate under the secret of the service
NoValidBearer(h) ==
    \/ h.type = "nil"
    \/ h.segs = <<>>
    \/ Head(h.segs) # bearerTokenKey
    \/ ~JwtParse(Replace(h.segs, bearerTokenKey), ServiceSecret, now).ok

\* C6: listAccountsForBank called with a header that is absent, empty, not
\* prefixed with "Bearer " or carrying a token that does not validate fails
\* with AuthError, whatever the bankId, and no store call is issued.
C6_AuthGate ==
    (last.op = "listAccountsForBank" /\ NoValidBearer(last.arg.header))
    => last.err = AuthError /\ last.calls = <<>> /\ last.val = Nil

\* C6 witness: a token signed with another secret and a bankId that is no
\* uuid, against a bank that has an account: the answer is the AuthError
C6_Witness ==
    /\ last.op = "listAccountsForBank" /\ last.err = AuthError
    /\ last.arg.header = Bearer(BuildToken("s2", AnyUser, 0).token)
    /\ FromString(last.arg.ids[1]) = NoUUID
    /\ GetUserBankAccounts(accounts, BankUUID) # {}

StoredItems ==
    {accounts[k] : k \in DOMAIN accounts} \cup {txns[k] : k \in DOMAIN txns}
        \cup {cards[k] : k \in DOMAIN cards}

\* the value holds a stored account, card or transaction
Exposes(val) ==
    IF "items" \in DOMAIN val THEN val.items \cap StoredItems # {}
    ELSE val \in StoredItems

\* C7 as claimed: a query called without a valid bearer token returns no
\* account, card or transaction data.
C7_ReadsNeedToken ==
    (last.op \in Queries /\ NoValidBearer(last.arg.header)) => ~Exposes(last.val)

----------------------------------------------------------------------------
(* Users: register and authenticate, part_002:27-110 *)

Passwords == {"pw1", "pw2"}

\* the salts bcrypt may draw
Salts == {"saltA", "saltB"}

\* authSvc.HashPwd, authentication.go:42-51: a salted digest of the password
HashPwd(pwd, salt) == [salt |-> salt, digest |-> <<salt, pwd>>]

\* a comparison that accepts any password
VerifyPwdAny(hashedPwd, pwd) == TRUE

\* authSvc.VerifyPwd, authentication.go:55-62: the password is digested
\* with the salt of the stored hash and compared
VerifyPwd(hashedPwd, pwd) == hashedPwd = HashPwd(pwd, hashedPwd.salt)

\* the user inputs of register: the email may be the empty string
UserInputs ==
    { [email |-> u.email, pwd |-> p, name |-> u.name] : u \in Users, p \in Passwords }
        \cup { [email |-> "", pwd |-> p, name |-> "Nobody"] : p \in Passwords }

Emails == { u.email : u \in UserInputs }

\* the Auth record, entities.go:5-10; its zero token is the empty string
NoToken == [kind |-> "text", text |-> ""]

MsgNoUser == "Unable to find user by that email"
MsgWrongPwd == "The password submitted does not match this users password"

AuthOf(success, message, token, expiresAt) ==
    [success |-> success, message |-> message, token |-> token, expiresAt |-> expiresAt]

\* User.Register, part_002:27-48: the stored and returned user has the hash
\* for a password; an item under the same email is replaced
Register(fails) ==
    \E u \in UserInputs, salt \in Salts, fail \in fails :
        LET hashed == [u EXCEPT !.pwd = HashPwd(u.pwd, salt)]
        IN  /\ IF fail \/ u.email = ""
               THEN /\ last' = Returned("register", [user |-> u, fail |-> fail],
                                        PersistenceError, <<"PutItem">>, Nil)
                    /\ UNCHANGED userTable
               ELSE /\ userTable' = PutItem(userTable, u.email, hashed)
                    /\ last' = Returned("register", [user |-> u, fail |-> fail],
                                        NoError, <<"PutItem">>, hashed)
            /\ UNCHANGED <<accounts, txns, nextAccount, nextTxn, cards, nextCard, posted,
                           proc, now, issued>>

\* Authenticate, part_002:59-110
Authenticate(email, pwd, fail) ==
    IF fail \/ email = "" THEN AuthOf(FALSE, MsgNoUser, NoToken, 0)
    ELSE IF email \notin DOMAIN userTable THEN AuthOf(FALSE, MsgNoUser, NoToken, 0)
    ELSE IF ~VerifyPwd(userTable[email].pwd, pwd)
    THEN AuthOf(FALSE, MsgWrongPwd, NoToken, 0)
    ELSE LET built == BuildToken(ServiceSecret, userTable[email], now)
         IN  AuthOf(TRUE, "Success", built.token, built.expiresAt)

\* authenticate mutation, part_000:156-171: the Auth record is the result,
\* the error of the resolver is always nil
AuthenticateUser(fails) ==
    \E email \in Emails, pwd \in Passwords, fail \in fails :
        /\ last' = Returned("authenticate", [email |-> email, pwd |-> pwd, fail |-> fail],
                            NoError, <<"GetItem">>, Authenticate(email, pwd, fail))
        /\ UNCHANGED <<accounts, txns, nextAccount, nextTxn, cards, nextCard, posted,
                       proc, now, issued, userTable>>

UsersRegister == Register(BOOLEAN)

UsersAuthenticate == AuthenticateUser(BOOLEAN)

NextUsers == UsersRegister \/ UsersAuthenticate

SpecUsers == Init /\ [][NextUsers]_vars

\* the password the user stored under the email registered with
RegisteredWith(email, pwd) ==
    /\ email \in DOMAIN userTable
    /\ \E salt \in Salts : userTable[email].pwd = HashPwd(pwd, salt)

\* C11: when the store answers, authenticate succeeds, with a token and the
\* expiry time, exactly when a user is stored under the email and the
\* password is the one of the stored hash; a failure carries no token.
C11_Authenticate ==
    last.op = "authenticate" =>
        /\ ~last.arg.fail =>
              (last.val.success <=> RegisteredWith(last.arg.email, last.arg.pwd))
        /\ last.val.success =>
              /\ last.val.token # NoToken
              /\ last.val.expiresAt = now + tokenExpiryMin
        /\ ~last.val.success => last.val.token = NoToken

\* C11 witness: a registered user is refused with another password
C11_Witness ==
    /\ last.op = "authenticate" /\ ~last.arg.fail /\ ~last.val.success
    /\ last.arg.email \in DOMAIN userTable
    /\ \E p \in Passwords : RegisteredWith(last.arg.email, p)
                            /\ Authenticate(last.arg.email, p, FALSE).success

----------------------------------------------------------------------------
(* Card lifecycle: saveCard, inactivateCard, getActiveCard *)

\* a scan that filters on the active flag only
GetActiveAccountCardAnyAccount(table, accountId) ==
    LET found == {table[k] : k \in {x \in DOMAIN table : table[x].active}}
    IN  IF found = {} THEN {Nil} ELSE found

\* GetActiveAccountCard, service.go:277-308: Scan with the filter
\* accountId = id AND active = true, then cards[0]; the order of a Scan is
\* not defined, so every item found is a possible result
GetActiveAccountCard(table, accountId) ==
    LET found == {table[k] : k \in {x \in DOMAIN table :
                        table[x].accountId = UUIDString(accountId) /\ table[x].active}}
    IN  IF found = {} THEN {Nil} ELSE found

\* activeCard field of BankAccountType, part_000:370-383
GetActiveCard(accountStrs, fails) ==
    \E idStr \in accountStrs, fail \in fails :
        IF FromString(idStr) = NoUUID
        THEN Answer("getActiveCard", NilHeader, <<idStr>>, Result(ValidationError, <<>>, Nil))
        ELSE IF fail
        THEN Answer("getActiveCard", NilHeader, <<idStr>>,
                    Result(PersistenceError, <<"Scan">>, Nil))
        ELSE \E c \in GetActiveAccountCard(cards, FromString(idStr)) :
                Answer("getActiveCard", NilHeader, <<idStr>>, Result(NoError, <<"Scan">>, c))

\* the accounts cards are saved for: two uuids, one also in another spelling
CardAccountStrs == {Canon(1), Canon(2), AltForm(1)}

\* card ids a client names: the ones handed out and the uuid of no card
CardStrs == {Canon(n) : n \in 1..nextCard} \cup {Canon(99)}

CardsSave == SaveCard(CardAccountStrs, BOOLEAN, MaxCards)

CardsInactivate == InactivateCard(CardAccountStrs, CardStrs, BOOLEAN, MaxCards)

CardsGetActive == GetActiveCard(CardAccountStrs \cup {BadStr}, BOOLEAN)

NextCards == CardsSave \/ CardsInactivate \/ CardsGetActive

\* a store in use: one account of the bank was saved and one DEBIT of 50,
\* dated 2, was posted to it
InitStocked ==
    LET a == AccountOf(Canon(BankUUID), NewV4(0),
                       CHOOSE p \in Profiles : p.accountType = "SAV")
        key == <<a.bankId, a.accountId>>
        t == WithTransactionId([accountId |-> a.accountId, transactionDate |-> 2,
                                amount |-> 50, transactionType |-> "DEBIT"], 0)
    IN  /\ accounts = UpdateCurrentBalance(PutItem(EmptyTable, key, a), a,
                                           t.amount, t.transactionType)
        /\ txns = PutItem(EmptyTable, TxnKey(t), t)
        /\ nextAccount = 1
        /\ nextTxn = 1
        /\ cards = EmptyTable
        /\ nextCard = 0
        /\ posted = RecordPost(RecordBalance(EmptyTable, key, a.currentBalance), key, t)
        /\ proc = EmptyTable
        /\ now = 0
        /\ issued = {}
        /\ userTable = EmptyTable
        /\ last = Returned("postTransaction",
                           [ids |-> <<a.bankId, a.accountId>>, txn |-> t, fail |-> "none"],
                           NoError, <<"PutItem", "GetItem", "UpdateItem">>, t)

SpecCards == InitStocked /\ [][NextCards]_vars

----------------------------------------------------------------------------
(* Properties of the card lifecycle *)

\* the keys of the active cards of the account an identifier text names
ActiveKeys(table, idStr) ==
    {k \in DOMAIN table : FromString(k[1]) = FromString(idStr) /\ table[k].active}

SingleActive(table) ==
    \A k \in DOMAIN table : Cardinality(ActiveKeys(table, k[1])) <= 1

\* C12 as claimed: in every state reached by saveCard and inactivateCard
\* calls, at most one stored card per accountId has active = true.
C12_SingleActiveCard == SingleActive(cards)

\* C12 amended: nothing enforces a single active card; the only call after
\* which an account has a second active card is a saveCard with active =
\* true for an account that already has an active card.
C12_OnlySaveActiveBreaks ==
    [][(SingleActive(cards) /\ ~SingleActive(cards'))
        => /\ last'.op = "saveCard" /\ last'.err = NoError /\ last'.val.active
           /\ ActiveKeys(cards, last'.val.accountId) # {}]_vars

\* C12 witness: a saveCard has returned a second active card for an account
C12_Witness ==
    /\ last.op = "saveCard" /\ last.err = NoError /\ last.val.active
    /\ Cardinality(ActiveKeys(cards, last.val.accountId)) = 2

\* C13: a stored card with active = false has active = false after every
\* call; no call takes a card from inactive to active or removes it.
C13_InactiveStaysInactive ==
    [][\A k \in DOMAIN cards :
          ~cards[k].active => (k \in DOMAIN cards' /\ ~cards'[k].active)]_vars

\* C13 witness: an active card was saved for an account that holds an
\* inactive card, and the inactive card is still inactive
C13_Witness ==
    /\ last.op = "saveCard" /\ last.err = NoError /\ last.val.active
    /\ \E k \in DOMAIN cards :
          /\ k[1] = last.val.accountId /\ k[2] # last.val.cardId
          /\ ~cards[k].active

\* C14: inactivateCard writes active = false at the key it names, the item
\* being created when none is stored there, and changes nothing else: the
\* other fields of that card, every other card, the accounts and the
\* transactions are as before; a failed call changes nothing.
C14_InactivateFrame ==
    [][last'.op = "inactivateCard" =>
        LET key == <<last'.arg.ids[1], last'.arg.ids[2]>>
        IN  /\ accounts' = accounts /\ txns' = txns
            /\ IF last'.err # NoError THEN cards' = cards
               ELSE /\ DOMAIN cards' = DOMAIN cards \cup {key}
                    /\ \A k \in DOMAIN cards \ {key} : cards'[k] = cards[k]
                    /\ ~cards'[key].active
                    /\ key \in DOMAIN cards
                         => cards'[key] = [cards[key] EXCEPT !.active = FALSE]]_vars

\* C14 witness: a saved card was inactivated next to an active card of the
\* same account
C14_Witness ==
    /\ last.op = "inactivateCard" /\ last.err = NoError
    /\ accounts # EmptyTable /\ txns # EmptyTable
    /\ LET key == <<last.arg.ids[1], last.arg.ids[2]>>
       IN  /\ key \in DOMAIN cards /\ cards[key] = CardOf(key[1], key[2], FALSE)
           /\ \E k \in DOMAIN cards : k # key /\ k[1] = key[1] /\ cards[k].active

\* C15: a saveCard that succeeds stores the card under a cardId no stored
\* card has, with the active flag the caller gave, and leaves every other
\* card, the accounts and the transactions as they were; a saveCard that
\* fails stores nothing.
C15_SaveCardFrame ==
    [][last'.op = "saveCard" =>
        /\ accounts' = accounts /\ txns' = txns
        /\ IF last'.err # NoError THEN cards' = cards
           ELSE LET c == last'.val
                    key == <<c.accountId, c.cardId>>
                IN  /\ \A k \in DOMAIN cards : k[2] # c.cardId
                    /\ c.accountId = last'.arg.ids[1]
                    /\ c.active = last'.arg.active
                    /\ cards' = PutItem(cards, key, c)]_vars

\* C15 witness: an active card was saved for an account whose earlier
\* card is still active
C15_Witness ==
    /\ last.op = "saveCard" /\ last.err = NoError /\ last.arg.active
    /\ accounts # EmptyTable /\ txns # EmptyTable
    /\ \E k \in DOMAIN cards :
          /\ k[1] = last.val.accountId /\ k[2] # last.val.cardId
          /\ cards[k] = CardOf(k[1], k[2], TRUE)

\* the stored active cards under the text of the uuid an identifier names
ActiveCardsOf(idStr) ==
    {cards[k] : k \in {x \in DOMAIN cards :
                        x[1] = UUIDString(FromString(idStr)) /\ cards[x].active}}

\* C16: getActiveCard returns none exactly when no stored card of the
\* account is active; otherwise it returns a stored card of that account
\* whose active flag is true.
C16_GetActiveCard ==
    (last.op = "getActiveCard" /\ last.err = NoError) =>
        /\ last.val = Nil <=> ActiveCardsOf(last.arg.ids[1]) = {}
        /\ last.val # Nil => last.val \in ActiveCardsOf(last.arg.ids[1])

\* C16 witness: two cards of the account are active and the second one saved
\* is the one returned
C16_Witness ==
    /\ last.op = "getActiveCard" /\ last.err = NoError
    /\ Cardinality(ActiveCardsOf(last.arg.ids[1])) = 2
    /\ last.val \in ActiveCardsOf(last.arg.ids[1])
    /\ last.val.cardId = NewV4(1)

----------------------------------------------------------------------------
(* Transaction history: postTransaction, listTransactions, getTransaction *)

\* the sequences that hold every element of a set exactly once
Perms(S) ==
    {f \in [1..Cardinality(S) -> S] : \A i, j \in 1..Cardinality(S) : f[i] = f[j] => i = j}

\* a listing in the order of the store, whatever it is
GetAccountTransactionsUnsorted(table, accountId) ==
    Perms({table[k] : k \in {x \in DOMAIN table : x[1] = UUIDString(accountId)}})

\* GetAccountTransactions, service.go:373-405: Query on the partition key,
\* then sort.Slice with Before on transactionDate; the sort is not stable,
\* so equal dates may come in either order
GetAccountTransactions(table, accountId) ==
    {f \in Perms({table[k] : k \in {x \in DOMAIN table : x[1] = UUIDString(accountId)}}) :
        \A i, j \in DOMAIN f : i < j => ~(f[j].transactionDate < f[i].transactionDate)}

\* transactions field of BankAccountType, part_000:384-397
ListTransactions(accountStrs, fails) ==
    \E idStr \in accountStrs, fail \in fails :
        IF FromString(idStr) = NoUUID
        THEN Answer("listTransactions", NilHeader, <<idStr>>,
                    Result(ValidationError, <<>>, Nil))
        ELSE IF fail
        THEN Answer("listTransactions", NilHeader, <<idStr>>,
                    Result(PersistenceError, <<"Query">>, Nil))
        ELSE \E f \in GetAccountTransactions(txns, FromString(idStr)) :
                Answer("listTransactions", NilHeader, <<idStr>>,
                       Result(NoError, <<"Query">>, List(f)))

\* account identifiers of the history: the stored account in both
\* spellings, and an account that was never saved
HistoryAccountStrs == {Canon(1), AltForm(1), Canon(2)}

HistoryTxnInputs ==
    [accountId : HistoryAccountStrs, transactionDate : {1, 2, 3},
     amount : {50}, transactionType : {"DEBIT"}]

HistoryPost == PostTransaction({Canon(BankUUID)}, HistoryTxnInputs, {"none", "put"}, MaxHistory)

HistoryList == ListTransactions(HistoryAccountStrs \cup {BadStr}, BOOLEAN)

HistoryGet ==
    \E idStr \in HistoryAccountStrs \cup {BadStr}, txnStr \in GatewayTxnStrs, fail \in BOOLEAN :
        Answer("getTransaction", NilHeader, <<idStr, txnStr>>,
               AccountTransactionResolver(idStr, txnStr, fail))

NextHistory == HistoryPost \/ HistoryList \/ HistoryGet

SpecHistory == InitStocked /\ [][NextHistory]_vars

----------------------------------------------------------------------------
(* Properties of the transaction history *)

\* the transactions stored under the text of the uuid an identifier names
StoredUnder(idStr) ==
    {txns[k] : k \in {x \in DOMAIN txns : x[1] = UUIDString(FromString(idStr))}}

\* C17: listTransactions returns the transactions stored under the account
\* and only those, each once, in an order that is non-decreasing by
\* transactionDate whatever the order in which they were posted.
C17_ListTransactions ==
    (last.op = "listTransactions" /\ last.err = NoError) =>
        LET f == last.val.items
        IN  /\ {f[i] : i \in DOMAIN f} = StoredUnder(last.arg.ids[1])
            /\ Len(f) = Cardinality(StoredUnder(last.arg.ids[1]))
            /\ \A i, j \in DOMAIN f :
                  i < j => f[i].transactionDate <= f[j].transactionDate

\* C17 witness: a transaction posted later with an earlier date is listed
\* before the one posted first
C17_Witness ==
    /\ last.op = "listTransactions" /\ last.err = NoError
    /\ LET f == last.val.items
       IN  \E i, j \in DOMAIN f :
              /\ i < j /\ f[i].transactionDate < f[j].transactionDate
              /\ f[i].transactionId = NewV4(1) /\ f[j].transactionId = NewV4(0)

\* the key two identifier texts name
NamedKey(ids) == <<UUIDString(FromString(ids[1])), UUIDString(FromString(ids[2]))>>

\* C18 as claimed: when the store answers, getTransaction returns the
\* stored transaction if one is stored at the key, and otherwise reports
\* that none was found and returns no transaction value.
C18_GetTransactionOrNotFound ==
    (last.op = "getTransaction" /\ ~Malformed(last.arg.ids)
        /\ last.err # PersistenceError) =>
        IF NamedKey(last.arg.ids) \in DOMAIN txns
        THEN last.err = NoError /\ last.val = txns[NamedKey(last.arg.ids)]
        ELSE last.err # NoError /\ last.val = Nil

----------------------------------------------------------------------------
(* Store failures *)

\* C19 as claimed: a call whose store request fails returns the error of
\* the store, after that one request, and not a successful result or
\* another condition such as "user not found".
C19_StoreFailurePropagated ==
    (last.op \in {"register", "authenticate"} /\ last.arg.fail) =>
        /\ last.err = PersistenceError
        /\ Len(last.calls) = 1
        /\ last.val = Nil

\* C20: a stored transaction stays stored with every field as it was, and
\* a postTransaction that stores a record gives it a transactionId that no
\* stored transaction has.
C20_TransactionsImmutable ==
    [][/\ \A k \in DOMAIN txns : k \in DOMAIN txns' /\ txns'[k] = txns[k]
       /\ \A k \in DOMAIN txns' \ DOMAIN txns :
             \A old \in DOMAIN txns : txns'[k].transactionId # txns[old].transactionId]_vars

\* C20 witness: the same transaction was posted twice to the account and
\* both records are stored
C20_Witness ==
    /\ last.op = "postTransaction" /\ last.err = NoError
    /\ \E k \in DOMAIN txns :
          /\ k # TxnKey(last.val) /\ TxnKey(last.val) \in DOMAIN txns
          /\ txns[k] = [last.val EXCEPT !.transactionId = k[2]]

----------------------------------------------------------------------------
(* Properties of the user records *)

\* C21 as claimed: a user stored under an email stays stored with the
\* password hash and the name it was registered with, whatever is called
\* afterwards, a second register with the same email included.
C21_UserImmutable ==
    [][\A e \in DOMAIN userTable :
          e \in DOMAIN userTable' /\ userTable'[e] = userTable[e]]_vars

----------------------------------------------------------------------------
(* Concurrent clients of two accounts.  Each account of Owners has         *)
(* one client; a client posts one transaction, in the three steps of       *)
(* Transaction.Save, and edits its account and cards between its calls.    *)
(* The steps of different clients interleave freely.                       *)

Owners == {1, 2}

OwnerKey(o) == <<Canon(BankUUID), Canon(o)>>

OwnerAccount(o) ==
    AccountOf(Canon(BankUUID), Canon(o), CHOOSE p \in Profiles : p.accountType = "SAV")

OwnerTxnInputs(o) ==
    { [accountId |-> Canon(o), transactionDate |-> 1,
       amount |-> ta[2], transactionType |-> ta[1]] :
        ta \in {IF o % 2 = 1 THEN <<"DEBIT", 50>> ELSE <<"CREDIT", 30>>} }

\* the client of an account is between two calls
AtRest(o) == proc[o].pc \in {"idle", "done"}

\* a store in use: every owner's account was saved
InitOwners ==
    /\ accounts = [k \in {OwnerKey(o) : o \in Owners} |-> OwnerAccount(k[2][2])]
    /\ txns = EmptyTable
    /\ nextAccount = Cardinality(Owners)
    /\ nextTxn = 0
    /\ cards = EmptyTable
    /\ nextCard = 0
    /\ posted = [k \in {OwnerKey(o) : o \in Owners} |->
                    [created |-> 0, base |-> 0, posts |-> <<>>, since |-> 0]]
    /\ proc = [o \in Owners |-> Idle]
    /\ now = 0
    /\ issued = {}
    /\ userTable = EmptyTable
    /\ last = Returned("init", Nil, NoError, <<>>, Nil)

OwnerPost ==
    \E o \in Owners : PostPutOf(o, OwnerTxnInputs(o), {"none"}) \/ PostGet(o) \/ PostUpdate(o)

OwnerUpdateAccount ==
    \E o \in Owners :
        AtRest(o) /\ UpdateAccount({Canon(BankUUID)}, {Canon(o)}, {FALSE}, Cardinality(Owners))

OwnerSaveCard == \E o \in Owners : AtRest(o) /\ SaveCard({Canon(o)}, {FALSE}, MaxCards)

OwnerInactivateCard ==
    \E o \in Owners :
        /\ AtRest(o)
        /\ InactivateCard({Canon(o)}, {k[2] : k \in {x \in DOMAIN cards : x[1] = Canon(o)}},
                          {FALSE}, MaxCards)

NextOwners == OwnerPost \/ OwnerUpdateAccount \/ OwnerSaveCard \/ OwnerInactivateCard

SpecOwners == InitOwners /\ [][NextOwners]_vars

\* everything stored for an account: its record, its cards, its transactions
OfAccount(o, accountTable, cardTable, txnTable) ==
    << { accountTable[k] : k \in {x \in DOMAIN accountTable : x[2] = Canon(o)} },
       { cardTable[k] : k \in {x \in DOMAIN cardTable : x[1] = Canon(o)} },
       { txnTable[k] : k \in {x \in DOMAIN txnTable : txnTable[x].accountId = Canon(o)} } >>

\* the account a call names
AccountNamed(r) ==
    CASE r.op = "updateAccount" -> r.arg.ids[2]
      [] r.op \in {"saveCard", "inactivateCard"} -> r.arg.ids[1]
      [] OTHER -> EmptyStr

\* the step is one of the client of account o: a step of its post, or one of
\* its other calls
StepOf(o) == proc'[o] # proc[o] \/ (proc' = proc /\ AccountNamed(last') = Canon(o))

\* C22: with every client working on an account of its own, under every
\* interleaving of the steps of postTransaction and of updateAccount,
\* saveCard and inactivateCard, what is stored for an account changes only
\* in the steps of that account's client, and its balance is the one its
\* own calls give run one after the other: the balance last written by
\* updateAccount plus the deltas of the transactions posted since.
C22_AccountsIndependent ==
    /\ [](\A o \in Owners :
            accounts[OwnerKey(o)].currentBalance
                = posted[OwnerKey(o)].base + FoldSigned(PostsSince(posted[OwnerKey(o)])))
    /\ [][\A o \in Owners :
            OfAccount(o, accounts', cards', txns') # OfAccount(o, accounts, cards, txns)
            => StepOf(o) /\ \A q \in Owners \ {o} : ~StepOf(q)]_vars

\* C22 witness: the client of one account is between the read and the write
\* of its post while the other account was edited, got a card and a post
C22_Witness ==
    \E o \in Owners, q \in Owners :
        /\ o # q
        /\ proc[o].pc = "write"
        /\ proc[q].pc = "done" /\ proc[q].err = NoError
        /\ posted[OwnerKey(q)].since = 1
        /\ \E k \in DOMAIN cards : k[1] = Canon(q) /\ ~cards[k].active
        /\ \E k \in DOMAIN cards : k[1] = Canon(o)

----------------------------------------------------------------------------
(* Properties of the steps of one post *)

\* the transaction ids handed out so far
AssignedIds == {NewV4(k) : k \in 0..(nextTxn - 1)}

\* the record of the request is stored as the request holds it
Persisted(t) == \E k \in DOMAIN txns : txns[k] = t

PostOrder == <<"idle", "read", "write", "done">>

PcIndex(pc) == CHOOSE i \in 1..Len(PostOrder) : PostOrder[i] = pc

\* C23: a post assigns the id and writes the record, then reads the account,
\* then writes the balance.  From the write of the record on, the request's
\* transaction carries an assigned id and is stored as held; the balance is
\* written only by a request that has read the account, after its record was
\* stored; every delta applied to an account is the one of a stored record;
\* and the transaction a successful post returns is the stored one.
C23_StepOrder ==
    /\ [](\A p \in Racers :
            (proc[p].pc \in {"read", "write"} \/ Succeeded(p))
            => /\ proc[p].txn.transactionId \in AssignedIds
               /\ Persisted(proc[p].txn))
    /\ [](\A k \in DOMAIN posted : \A i \in 1..Len(posted[k].posts) :
            \E x \in DOMAIN txns :
                /\ FromString(x[1]) = FromString(k[2])
                /\ txns[x].amount = posted[k].posts[i].amount
                /\ txns[x].transactionType = posted[k].posts[i].transactionType)
    /\ [][\A p \in Racers :
            proc'[p] # proc[p]
            => /\ PcIndex(proc'[p].pc) > PcIndex(proc[p].pc)
               /\ proc'[p].pc = "read"
                    => /\ proc[p].pc = "idle"
                       /\ \E k \in DOMAIN txns' : txns'[k] = proc'[p].txn
               /\ proc'[p].pc = "write"
                    => /\ proc[p].pc = "read" /\ txns' = txns /\ accounts' = accounts
                       /\ proc'[p].acct = GetUserBankAccount(accounts, BankUUID,
                                                             AccountIdOf(proc[p].txn))
               /\ accounts' # accounts
                    => /\ proc[p].pc = "write" /\ Persisted(proc[p].txn)
                       /\ Succeeded(p)' /\ proc'[p].txn = proc[p].txn]_vars

\* C23 witness: a post returned its transaction, the record is stored and the
\* balance holds its delta
C23_Witness ==
    \E p \in Racers, k \in DOMAIN accounts :
        /\ Succeeded(p) /\ BalanceKey(proc[p].acct) = k
        /\ Persisted(proc[p].txn)
        /\ Len(posted[k].posts) = 1
        /\ accounts[k].currentBalance = posted[k].created + SignedAmount(proc[p].txn)

----------------------------------------------------------------------------
(* Properties of the balance delta *)

\* the step is a post that returned its transaction
PostSucceeds ==
    /\ nextTxn' = nextTxn + 1
    /\ last'.op = "postTransaction" /\ last'.err = NoError

PostedKey(r) == <<Canon(FromString(r.arg.ids[1])), Canon(FromString(r.arg.ids[2]))>>

BalanceStep(key) == accounts'[key].currentBalance - accounts[key].currentBalance

\* C24 as claimed: a successful post changes the balance of its account by
\* -amount for a CREDIT and by +amount for every other type, for amounts of
\* either sign.
C24_DeltaAsClaimed ==
    [][PostSucceeds
        => BalanceStep(PostedKey(last')) = SignedAmount(last'.arg.txn)]_vars

\* C24 amended: a successful post changes the balance of its account by
\* -|amount| for a CREDIT and by +amount for every other type; the two rules
\* agree exactly when the amount of a CREDIT is not negative.
C24_DeltaAsComputed ==
    [][PostSucceeds
        => LET t == last'.arg.txn
           IN  /\ BalanceStep(PostedKey(last'))
                    = (IF t.transactionType = "CREDIT" THEN -Abs(t.amount) ELSE t.amount)
               /\ (t.transactionType = "CREDIT" /\ t.amount < 0)
                    <=> BalanceStep(PostedKey(last')) # SignedAmount(t)]_vars

\* C24 witness: a CREDIT of -30 was posted to an untouched account and
\* lowered its balance by 30
C24_Witness ==
    /\ PostReturned /\ last.err = NoError
    /\ last.arg.txn.transactionType = "CREDIT" /\ last.arg.txn.amount = -30
    /\ posted[PostedKey(last)].since = 0 /\ Len(posted[PostedKey(last)].posts) = 1
    /\ accounts[PostedKey(last)].currentBalance = posted[PostedKey(last)].created - 30

----------------------------------------------------------------------------
(* Properties of ownership *)

Owned(accountId) == \E a \in DOMAIN accounts : a[2] = accountId

\* C25 as claimed: every stored transaction and every stored card carries
\* the accountId of a stored account, so a post or a saveCard that names no
\* stored account persists no record.
C25_Ownership ==
    /\ \A k \in DOMAIN txns : Owned(txns[k].accountId)
    /\ \A k \in DOMAIN cards : Owned(cards[k].accountId)

----------------------------------------------------------------------------
(* Properties of account edits *)

\* the step is an updateAccount that returned the account
UpdateSucceeds ==
    proc' = proc /\ last'.op = "updateAccount" /\ last'.err = NoError

\* C26: a successful updateAccount of a stored account leaves that record
\* with the accountName, accountType and last4 of the input and with the
\* currentBalance of the input, or 0 when the input has none, and with its
\* keys as they were; every other account, every card and every transaction
\* is as before.
C26_UpdateAccountFrame ==
    [][(UpdateSucceeds /\ <<last'.arg.ids[1], last'.arg.ids[2]>> \in DOMAIN accounts)
        => LET key == <<last'.arg.ids[1], last'.arg.ids[2]>>
               in == last'.arg.acct
           IN  /\ accounts' = [accounts EXCEPT ![key] =
                    [bankId |-> @.bankId, accountId |-> @.accountId,
                     accountName |-> in.accountName, accountType |-> in.accountType,
                     last4 |-> in.last4,
                     currentBalance |-> IF "currentBalance" \in DOMAIN in
                                        THEN in.currentBalance ELSE 0]]
               /\ cards' = cards /\ txns' = txns]_vars

\* C26 witness: an account that held a balance after a post was edited with
\* an input without balance and holds 0, while the other account holds a
\* balance, and cards and transactions are stored
C26_Witness ==
    /\ last.op = "updateAccount" /\ last.err = NoError
    /\ "currentBalance" \notin DOMAIN last.arg.acct
    /\ LET key == <<last.arg.ids[1], last.arg.ids[2]>>
       IN  /\ posted[key].since = 1
           /\ accounts[key].currentBalance = 0
           /\ \E k \in DOMAIN accounts \ {key} :
                accounts[k].currentBalance # 0 /\ accounts[k].accountName # accounts[key].accountName
           /\ \E c \in DOMAIN cards : c[1] = key[2]
           /\ \E t \in DOMAIN txns : t[1] = key[2]

----------------------------------------------------------------------------
(* Properties of record creation *)

\* C27 as claimed: an account key appears only in a successful saveAccount
\* and a card key only in a successful saveCard; updateAccount,
\* inactivateCard and the balance write of a post create no record.
C27_OnlySavesCreate ==
    [][/\ DOMAIN accounts' # DOMAIN accounts
            => last'.op = "saveAccount" /\ last'.err = NoError
       /\ DOMAIN cards' # DOMAIN cards
            => last'.op = "saveCard" /\ last'.err = NoError]_vars

----------------------------------------------------------------------------
(* Edits during a post.  The accounts of Owners are edited at any time,    *)
(* also between the account read and the balance write of a post.          *)

EditAccount ==
    \E o \in Owners : UpdateAccount({Canon(BankUUID)}, {Canon(o)}, {FALSE}, Cardinality(Owners))

NextEdits == OwnerPost \/ EditAccount

SpecEdits == InitOwners /\ [][NextEdits]_vars

\* C28: the balance write of a post replaces the balance of the account it
\* read by the balance read plus the delta and leaves everything else stored
\* as it is at the time of the write: accountName, accountType and last4
\* written by an updateAccount after the read are kept.
C28_PostWritesBalanceOnly ==
    [][\A p \in Owners :
        (proc[p].pc = "write" /\ Succeeded(p)')
        => LET key == BalanceKey(proc[p].acct)
           IN  /\ key \in DOMAIN accounts
               /\ accounts' = [accounts EXCEPT ![key].currentBalance =
                    NewBalance(proc[p].acct.currentBalance, proc[p].txn.amount,
                               proc[p].txn.transactionType)]]_vars

\* C28 witness: a post succeeded on an account that was renamed between the
\* read and the write of the post and holds the new name
C28_Witness ==
    \E p \in Owners :
        LET key == BalanceKey(proc[p].acct)
        IN  /\ Succeeded(p)
            /\ posted[key].since = 0 /\ Len(posted[key].posts) = 1
            /\ last.op = "updateAccount" /\ last.val.accountId = key[2]
            /\ accounts[key].accountName = last.val.accountName
            /\ accounts[key].accountName # proc[p].acct.accountName
            /\ accounts[key].last4 # proc[p].acct.last4

----------------------------------------------------------------------------
(* Properties of the token subject *)

TokenOf(h) == ValidateToken(ServiceSecret, AuthHeaderMiddleware(h), now)

\* the request headers whose token the service accepts
ValidHeaders == {h \in RequestHeaders : TokenOf(h).err = NoError}

\* C29: the answer of listAccountsForBank does not depend on the subject of
\* the token: two requests with accepted tokens of different subjects and
\* the same bankId get the same answer, and the answer a caller got is the
\* one every other subject gets.
C29_SubjectIrrelevant ==
    /\ \A h1 \in ValidHeaders, h2 \in ValidHeaders, bankStr \in BankStrs :
            BankAccountsResolver(h1, bankStr, FALSE) = BankAccountsResolver(h2, bankStr, FALSE)
    /\ (last.op = "listAccountsForBank" /\ last.arg.header \in ValidHeaders)
        => \A h2 \in ValidHeaders :
            Result(last.err, last.calls, last.val)
                = BankAccountsResolver(h2, last.arg.ids[1], FALSE)

\* C29 witness: a caller got the accounts of a bank, and a token of another
\* subject is accepted too
C29_Witness ==
    /\ last.op = "listAccountsForBank" /\ last.err = NoError
    /\ last.arg.header \in ValidHeaders
    /\ last.val.items # {}
    /\ \E h2 \in ValidHeaders :
        TokenOf(h2).claims.email # TokenOf(last.arg.header).claims.email

----------------------------------------------------------------------------
(* Properties of a failed transaction write *)

\* the step is a post whose PutItem of the transaction failed
PutFails ==
    /\ nextTxn' = nextTxn + 1
    /\ last'.op = "postTransaction" /\ last'.arg.fail = "put"

\* C30: a post whose transaction write fails returns the error of the store
\* and no transaction; the write was the only store call, so the account was
\* not read; no transaction record was added and no account changed.
C30_FailedPutChangesNothing ==
    [][PutFails
        => /\ last'.err = PersistenceError /\ last'.val = Nil
           /\ last'.calls = <<"PutItem">>
           /\ txns' = txns /\ accounts' = accounts /\ cards' = cards
           /\ posted' = posted]_vars

\* C30 witness: the write failed for a post to a stored account that holds
\* an earlier post; there is still one record and the balance of that post
C30_Witness ==
    /\ PostReturned /\ last.arg.fail = "put" /\ last.err = PersistenceError
    /\ nextTxn = 2 /\ Cardinality(DOMAIN txns) = 1
    /\ \E k \in DOMAIN accounts :
        /\ k[2] = last.arg.txn.accountId
        /\ Len(posted[k].posts) = 1 /\ posted[k].since = 0
        /\ accounts[k].currentBalance
             = posted[k].created + FoldSigned(posted[k].posts)
        /\ accounts[k].currentBalance # posted[k].created

====
